---- MODULE Spec2Model ----
(***************************************************************************)
(* Layered reference model of the parity-db "simple_model" fuzz target:    *)
(* batches are recorded as layers, the oldest pending layer is marked      *)
(* written on a flush, and after a restart the model is reset to the       *)
(* longest history that the database's content agrees with.                *)
(***************************************************************************)
EXTENDS Integers, Sequences, FiniteSets, TLC

\* const NUMBER_OF_POSSIBLE_KEYS: usize = 256, scaled down to two keys: the
\* code treats every key alike, and two keys tell a key some layer defines
\* from one that no layer defines
NUMBER_OF_POSSIBLE_KEYS == 2

\* ---- bounds ----
NumVals == 1
MaxLayers == 2
MaxBatch == 2
MaxMarks == 2

\* ---- Rust Option<T>: None is the empty tuple, Some(x) the one-element tuple
None == <<>>
Some(x) == <<x>>
Unwrap(o) == o[1]

Keys == 0 .. (NUMBER_OF_POSSIBLE_KEYS - 1)
Vals == 0 .. (NumVals - 1)
OptVals == {None} \cup {Some(v) : v \in Vals}

\* type Operation = (u8, Option<u8>)
Operation == Keys \X OptVals

BoundedSeq(S, n) == UNION {[1 .. m -> S] : m \in 0 .. n}

\* the batches the harness may submit
Batches == BoundedSeq(Operation, MaxBatch)

\* the content a reopened database may report: (key, value) pairs, one per
\* key, enumerated in key order
DiskStates == {s \in BoundedSeq(Keys \X Vals, NUMBER_OF_POSSIBLE_KEYS) :
                 \A i \in 1 .. Len(s) : \A j \in 1 .. Len(s) : i < j => s[i][1] < s[j][1]}

\* let mut values = [None; NUMBER_OF_POSSIBLE_KEYS]
EmptyValues == [k \in Keys |-> None]

\* struct Layer { values, written }
Layer(values, written) == [values |-> values, written |-> written]

Pop(m) == SubSeq(m, 1, Len(m) - 1)

\* mutant: the first occurrence of a key in the batch wins
RECURSIVE FillValuesFirstWins(_, _, _)
FillValuesFirstWins(values, operations, i) ==
  IF i > Len(operations) THEN values
  ELSE FillValuesFirstWins(
         IF values[operations[i][1]] = None
         THEN [values EXCEPT ![operations[i][1]] = Some(operations[i][2])]
         ELSE values, operations, i + 1)

\* for (k, v) in operations { values[k] = Some(*v) }
RECURSIVE FillValues(_, _, _)
FillValues(values, operations, i) ==
  IF i > Len(operations) THEN values
  ELSE FillValues([values EXCEPT ![operations[i][1]] = Some(operations[i][2])],
                  operations, i + 1)

\* mutant: the batch is written into the newest layer instead of a new one
apply_operations_on_last_layer(operations, m) ==
  IF m = <<>>
  THEN <<Layer(FillValues(EmptyValues, operations, 1), FALSE)>>
  ELSE [m EXCEPT ![Len(m)] = Layer(FillValues(m[Len(m)].values, operations, 1), FALSE)]

apply_operations_on_model(operations, m) ==
  Append(m, Layer(FillValues(EmptyValues, operations, 1), FALSE))

\* for layer in model { if !layer.written { layer.written = true; break } }
RECURSIVE MarkFirst(_, _)
MarkFirst(m, i) ==
  IF i > Len(m) THEN m
  ELSE IF ~m[i].written THEN [m EXCEPT ![i].written = TRUE]
  ELSE MarkFirst(m, i + 1)

\* mutant: the loop lacks its break and marks every pending layer
write_all_layers_to_disk(m) == [i \in 1 .. Len(m) |-> [m[i] EXCEPT !.written = TRUE]]

\* mutant: the newest pending layer is marked instead of the oldest
RECURSIVE MarkLast(_, _)
MarkLast(m, i) ==
  IF i < 1 THEN m
  ELSE IF ~m[i].written THEN [m EXCEPT ![i].written = TRUE]
  ELSE MarkLast(m, i - 1)

write_last_layer_to_disk(m) == MarkLast(m, Len(m))

write_first_layer_to_disk(m) == MarkFirst(m, 1)

\* for (k, v) in state { values[k] = Some(*v) }
RECURSIVE ExpectedFrom(_, _, _)
ExpectedFrom(values, state, i) ==
  IF i > Len(state) THEN values
  ELSE ExpectedFrom([values EXCEPT ![state[i][1]] = Some(state[i][2])], state, i + 1)

Expected(state) == ExpectedFrom(EmptyValues, state, 1)

\* for layer in model.iter().rev() { if let Some(v) = layer.values[k] { ...; break } }
\* index of the newest layer at or below i that defines k, 0 when none does
RECURSIVE DefiningLayer(_, _, _)
DefiningLayer(m, k, i) ==
  IF i < 1 THEN 0
  ELSE IF m[i].values[k] # None THEN i
  ELSE DefiningLayer(m, k, i - 1)

\* the oldest layer at or above i that defines k, 0 when none does
RECURSIVE OldestDefiningLayer(_, _, _)
OldestDefiningLayer(m, k, i) ==
  IF i > Len(m) THEN 0
  ELSE IF m[i].values[k] # None THEN i
  ELSE OldestDefiningLayer(m, k, i + 1)

\* mutant: the layers are compared oldest first (the .rev() is missing)
IsEqualOldestFirst(m, expected) ==
  \A k \in Keys :
    LET i == OldestDefiningLayer(m, k, 1)
    IN i # 0 => Unwrap(m[i].values[k]) = expected[k]

\* mutant: deleted entries are not compared, only set ones
IsEqualIgnoringDeletes(m, expected) ==
  \A k \in Keys :
    LET i == DefiningLayer(m, k, Len(m))
    IN (i # 0 /\ Unwrap(m[i].values[k]) # None) => Unwrap(m[i].values[k]) = expected[k]

\* the is_equal flag after the loop over expected.iter().enumerate()
IsEqual(m, expected) ==
  \A k \in Keys :
    LET i == DefiningLayer(m, k, Len(m))
    IN i # 0 => Unwrap(m[i].values[k]) = expected[k]

\* mutant: the search gives up at the first written layer that does not match
RECURSIVE ResetLoopGiveUp(_, _, _)
ResetLoopGiveUp(m, state, n) ==
  IF m = <<>>
  THEN [result |-> IF state = <<>> THEN Some(<<>>) ELSE None, iters |-> n]
  ELSE IF ~m[Len(m)].written THEN ResetLoopGiveUp(Pop(m), state, n + 1)
  ELSE IF IsEqual(m, Expected(state)) THEN [result |-> Some(m), iters |-> n + 1]
  ELSE [result |-> None, iters |-> n + 1]

\* mutant: pending layers are compared like written ones
RECURSIVE ResetLoopComparePending(_, _, _)
ResetLoopComparePending(m, state, n) ==
  IF m = <<>>
  THEN [result |-> IF state = <<>> THEN Some(<<>>) ELSE None, iters |-> n]
  ELSE IF IsEqual(m, Expected(state)) THEN [result |-> Some(m), iters |-> n + 1]
  ELSE ResetLoopComparePending(Pop(m), state, n + 1)

\* mutant: a written layer that does not match takes the layer below with it
RECURSIVE ResetLoopPopTwo(_, _, _)
ResetLoopPopTwo(m, state, n) ==
  IF m = <<>>
  THEN [result |-> IF state = <<>> THEN Some(<<>>) ELSE None, iters |-> n]
  ELSE IF ~m[Len(m)].written THEN ResetLoopPopTwo(Pop(m), state, n + 1)
  ELSE IF IsEqual(m, Expected(state)) THEN [result |-> Some(m), iters |-> n + 1]
  ELSE ResetLoopPopTwo(Pop(Pop(m)), state, n + 1)

\* mutant: the test of the written flag is inverted
RECURSIVE ResetLoopInverted(_, _, _)
ResetLoopInverted(m, state, n) ==
  IF m = <<>>
  THEN [result |-> IF state = <<>> THEN Some(<<>>) ELSE None, iters |-> n]
  ELSE IF m[Len(m)].written THEN ResetLoopInverted(Pop(m), state, n + 1)
  ELSE IF IsEqual(m, Expected(state)) THEN [result |-> Some(m), iters |-> n + 1]
  ELSE ResetLoopInverted(Pop(m), state, n + 1)

\* mutant: an emptied clone is returned whatever the disk state is
RECURSIVE ResetLoopAlwaysEmpty(_, _, _)
ResetLoopAlwaysEmpty(m, state, n) ==
  IF m = <<>>
  THEN [result |-> Some(<<>>), iters |-> n]
  ELSE IF ~m[Len(m)].written THEN ResetLoopAlwaysEmpty(Pop(m), state, n + 1)
  ELSE IF IsEqual(m, Expected(state)) THEN [result |-> Some(m), iters |-> n + 1]
  ELSE ResetLoopAlwaysEmpty(Pop(m), state, n + 1)

\* the while loop of attempt_to_reset_model_to_disk_state on the clone, with
\* the number of iterations made so far
RECURSIVE ResetLoop(_, _, _)
ResetLoop(m, state, n) ==
  IF m = <<>>
  THEN [result |-> IF state = <<>> THEN Some(<<>>) ELSE None, iters |-> n]
  ELSE IF ~m[Len(m)].written THEN ResetLoop(Pop(m), state, n + 1)
  ELSE IF IsEqual(m, Expected(state)) THEN [result |-> Some(m), iters |-> n + 1]
  ELSE ResetLoop(Pop(m), state, n + 1)

attempt_to_reset_model_to_disk_state(m, state) == ResetLoop(m, state, 0).result

\* for k in u8::MIN..=u8::MAX { ... content.push((vec![k], vec![v])) ... }
RECURSIVE RequiredFrom(_, _)
RequiredFrom(m, k) ==
  IF k >= NUMBER_OF_POSSIBLE_KEYS THEN <<>>
  ELSE LET i == DefiningLayer(m, k, Len(m))
           here == IF i # 0 /\ Unwrap(m[i].values[k]) # None
                   THEN << <<k, Unwrap(Unwrap(m[i].values[k]))>> >>
                   ELSE <<>>
       IN here \o RequiredFrom(m, k + 1)

\* mutant: the layers are scanned oldest first
RECURSIVE RequiredFromOldest(_, _)
RequiredFromOldest(m, k) ==
  IF k >= NUMBER_OF_POSSIBLE_KEYS THEN <<>>
  ELSE LET i == OldestDefiningLayer(m, k, 1)
           here == IF i # 0 /\ Unwrap(m[i].values[k]) # None
                   THEN << <<k, Unwrap(Unwrap(m[i].values[k]))>> >>
                   ELSE <<>>
       IN here \o RequiredFromOldest(m, k + 1)

model_required_content_oldest(m) == RequiredFromOldest(m, 0)

model_required_content(m) == RequiredFrom(m, 0)

RECURSIVE OptionalFrom(_, _)
OptionalFrom(m, k) ==
  IF k >= NUMBER_OF_POSSIBLE_KEYS THEN <<>>
  ELSE LET i == DefiningLayer(m, k, Len(m))
           here == IF i # 0 /\ Unwrap(m[i].values[k]) # None
                   THEN << <<k, Unwrap(Unwrap(m[i].values[k]))>> >>
                   ELSE <<>>
       IN here \o OptionalFrom(m, k + 1)

\* mutant: only the content of written layers is listed
RECURSIVE OptionalFromWritten(_, _)
OptionalFromWritten(m, k) ==
  IF k >= NUMBER_OF_POSSIBLE_KEYS THEN <<>>
  ELSE LET i == DefiningLayer(m, k, Len(m))
           here == IF i # 0 /\ Unwrap(m[i].values[k]) # None /\ m[i].written
                   THEN << <<k, Unwrap(Unwrap(m[i].values[k]))>> >>
                   ELSE <<>>
       IN here \o OptionalFromWritten(m, k + 1)

model_optional_content_written(m) == OptionalFromWritten(m, 0)

model_optional_content(m) == OptionalFrom(m, 0)

\* if v.is_none() && !layer.written { keys.push(vec![k]) }
RECURSIVE RemovedFrom(_, _)
RemovedFrom(m, k) ==
  IF k >= NUMBER_OF_POSSIBLE_KEYS THEN <<>>
  ELSE LET i == DefiningLayer(m, k, Len(m))
           here == IF i # 0 /\ Unwrap(m[i].values[k]) = None /\ ~m[i].written
                   THEN <<k>>
                   ELSE <<>>
       IN here \o RemovedFrom(m, k + 1)

\* mutant: the test on the entry is dropped, every pending key is reported
RECURSIVE RemovedFromAnyPending(_, _)
RemovedFromAnyPending(m, k) ==
  IF k >= NUMBER_OF_POSSIBLE_KEYS THEN <<>>
  ELSE LET i == DefiningLayer(m, k, Len(m))
           here == IF i # 0 /\ ~m[i].written THEN <<k>> ELSE <<>>
       IN here \o RemovedFromAnyPending(m, k + 1)

model_removed_content_any_pending(m) == RemovedFromAnyPending(m, 0)

\* mutant: the written flag is not tested, every deleted key is reported
RECURSIVE RemovedFromAnyDelete(_, _)
RemovedFromAnyDelete(m, k) ==
  IF k >= NUMBER_OF_POSSIBLE_KEYS THEN <<>>
  ELSE LET i == DefiningLayer(m, k, Len(m))
           here == IF i # 0 /\ Unwrap(m[i].values[k]) = None THEN <<k>> ELSE <<>>
       IN here \o RemovedFromAnyDelete(m, k + 1)

model_removed_content_any_delete(m) == RemovedFromAnyDelete(m, 0)

model_removed_content(m) == RemovedFrom(m, 0)

\* ---- the run: the model held by the harness and the calls made on it ----
VARIABLES
  model,      \* the Vec<Layer> the harness owns
  pc,         \* "run", or "reset" right after attempt_to_reset_model_to_disk_state returned
  state,      \* the disk state handed to the last reset attempt
  result,     \* what the last reset attempt returned (Option<Model>)
  restarted,  \* TRUE once the model has been replaced by a reset result
  marks,      \* number of write_first_layer_to_disk calls before the first restart
  effective,  \* those of them that found a pending layer
  replay      \* the operations so far replayed on a plain map, before the first restart

vars == <<model, pc, state, result, restarted, marks, effective, replay>>

\* the plain map: set inserts or overwrites, delete removes
RECURSIVE Replay(_, _, _)
Replay(map, operations, i) ==
  IF i > Len(operations) THEN map
  ELSE Replay([map EXCEPT ![operations[i][1]] = operations[i][2]], operations, i + 1)

Init ==
  /\ model = <<>>
  /\ pc = "run"
  /\ state = <<>>
  /\ result = None
  /\ restarted = FALSE
  /\ marks = 0
  /\ effective = 0
  /\ replay = EmptyValues

\* Action::Transaction: the batch is recorded as a new layer
ApplyOperations(operations) ==
  /\ pc = "run"
  /\ Len(model) < MaxLayers
  /\ model' = apply_operations_on_model(operations, model)
  /\ replay' = IF restarted THEN replay ELSE Replay(replay, operations, 1)
  /\ UNCHANGED <<pc, state, result, restarted, marks, effective>>

\* a flush: the oldest pending layer becomes written
WriteFirstLayer ==
  /\ pc = "run"
  /\ restarted \/ marks < MaxMarks
  /\ model' = write_first_layer_to_disk(model)
  /\ marks' = IF restarted THEN marks ELSE marks + 1
  /\ effective' = IF restarted \/ (\A i \in 1 .. Len(model) : model[i].written)
                  THEN effective ELSE effective + 1
  /\ UNCHANGED <<pc, state, result, restarted, replay>>

\* mutant: the layers are popped from the model itself, not from a clone
AttemptResetInPlace(s) ==
  /\ pc = "run"
  /\ state' = s
  /\ result' = attempt_to_reset_model_to_disk_state(model, s)
  /\ pc' = "reset"
  /\ model' = IF result' # None THEN Unwrap(result') ELSE <<>>
  /\ UNCHANGED <<restarted, marks, effective, replay>>

\* a restart: the reopened database reports s and the reset is attempted on
\* a clone; the model itself is not touched
AttemptReset(s) ==
  /\ pc = "run"
  /\ state' = s
  /\ result' = attempt_to_reset_model_to_disk_state(model, s)
  /\ pc' = "reset"
  /\ UNCHANGED <<model, restarted, marks, effective, replay>>

\* the harness continues with the model the reset returned; when the reset
\* returned nothing the run ends
ResetModel ==
  /\ pc = "reset"
  /\ result # None
  /\ model' = Unwrap(result)
  /\ pc' = "run"
  /\ state' = <<>>
  /\ result' = None
  /\ restarted' = TRUE
  /\ marks' = 0
  /\ effective' = 0
  /\ replay' = EmptyValues

Next ==
  \/ \E operations \in Batches : ApplyOperations(operations)
  \/ WriteFirstLayer
  \/ \E s \in DiskStates : AttemptReset(s)
  \/ ResetModel

Spec == Init /\ [][Next]_vars

\* ---- shared vocabulary of the properties ----

\* the effective state of m: per key, the entry of the newest defining layer
EffectiveState(m) ==
  [k \in Keys |->
     LET i == DefiningLayer(m, k, Len(m))
     IN IF i = 0 THEN None ELSE Unwrap(m[i].values[k])]

\* the observed state as a map
Observed(s) == [k \in Keys |-> IF \E i \in 1 .. Len(s) : s[i][1] = k
                               THEN Some((CHOOSE p \in {s[i] : i \in 1 .. Len(s)} : p[1] = k)[2])
                               ELSE None]

Reconciled == pc = "reset"
Succeeded == pc = "reset" /\ result # None
Failed == pc = "reset" /\ result = None

WrittenCount(m) == Cardinality({i \in 1 .. Len(m) : m[i].written})
Min(a, b) == IF a < b THEN a ELSE b
Prefix(m, n) == SubSeq(m, 1, n)
AllWritten(m) == \A i \in 1 .. Len(m) : m[i].written

\* the model after: record [(k, Some(v))], mark durable, record [(k, None)]
SetFlushDelete(k, v) ==
  apply_operations_on_model(<< <<k, None>> >>,
    write_first_layer_to_disk(
      apply_operations_on_model(<< <<k, Some(v)>> >>, <<>>)))

\* the plain map listed in key order
RECURSIVE MapContent(_, _)
MapContent(map, k) ==
  IF k >= NUMBER_OF_POSSIBLE_KEYS THEN <<>>
  ELSE (IF map[k] # None THEN << <<k, Unwrap(map[k])>> >> ELSE <<>>) \o MapContent(map, k + 1)

\* ---- C1 ----
\* C1: whenever the reset returns a model, the effective state of that model
\* equals the observed disk state on every key, the keys that no layer of
\* the returned model defines included.
C1_ReturnedModelEqualsObserved ==
  Succeeded => EffectiveState(Unwrap(result)) = Observed(state)

\* ---- C2 ----
\* C2: if some prefix of the model made of written layers only has an
\* effective state equal to the observed state, the reset does not fail and
\* returns a model at least as long as that prefix.
C2_NoShorterThanMatchingWrittenPrefix ==
  Reconciled =>
    \A n \in 0 .. Len(model) :
      (AllWritten(Prefix(model, n)) /\ EffectiveState(Prefix(model, n)) = Observed(state))
        => (result # None /\ Len(Unwrap(result)) >= n)

\* a written layer that does not match was dropped to reach a matching
\* written prefix
C2_Witness ==
  /\ Succeeded
  /\ Len(model) = 2 /\ model[2].written
  /\ Len(Unwrap(result)) = 1
  /\ EffectiveState(Prefix(model, 1)) = Observed(state)
  /\ state # <<>>

\* ---- C3 ----
\* C3: after record [(k, Some(v))], mark durable, record [(k, None)], the
\* reset against the empty disk state returns nothing.
C3_EmptyStateAfterDurableSetFails ==
  (Reconciled /\ state = <<>> /\ \E k \in Keys : \E v \in Vals : model = SetFlushDelete(k, v))
    => result = None

\* ---- C4 ----
\* C4: the reset succeeds whenever the effective state of the whole model,
\* pending tail layers included, equals the observed state; in particular
\* after a single pending record [(k, Some(v))] against {k: v}.
C4_WholeModelMatchSucceeds ==
  (Reconciled /\ EffectiveState(model) = Observed(state)) => result # None

\* ---- C5 ----
\* C5: after record [(k, Some(v))], mark durable, record [(k, None)], the
\* reset against {k: v} returns exactly the first, written layer.
C5_DurableSetSurvivesPendingDelete ==
  \A k \in Keys : \A v \in Vals :
    (Reconciled /\ model = SetFlushDelete(k, v) /\ state = << <<k, v>> >>)
      => result = Some(Prefix(model, 1))

C5_Witness ==
  /\ Succeeded
  /\ \E k \in Keys : \E v \in Vals : model = SetFlushDelete(k, v) /\ state = << <<k, v>> >>
  /\ Len(Unwrap(result)) = 1

\* ---- C6 ----
\* C6: on a model with no layer the reset succeeds exactly when the observed
\* state is empty, and then returns a model with no layer.
C6_EmptyModelIffEmptyState ==
  (Reconciled /\ model = <<>>) =>
    /\ (result # None) <=> (state = <<>>)
    /\ result # None => Unwrap(result) = <<>>

C6_Witness == Failed /\ model = <<>> /\ state # <<>>

\* ---- C7 ----
\* C7 (as stated): the number of written layers equals the minimum of the
\* number of mark-durable calls and the number of layers.
C7_WrittenIsMinOfCallsAndLayers ==
  ~restarted => WrittenCount(model) = Min(marks, Len(model))

\* C7 (amended): the number of written layers equals the number of
\* mark-durable calls that found a pending layer, and so never exceeds the
\* minimum of the number of calls and the number of layers.
C7_WrittenIsEffectiveCalls ==
  ~restarted =>
    /\ WrittenCount(model) = effective
    /\ WrittenCount(model) <= Min(marks, Len(model))

\* a call was made with nothing pending and a batch was recorded afterwards
C7_Witness ==
  /\ ~restarted
  /\ effective >= 1
  /\ marks > effective
  /\ WrittenCount(model) < Len(model)
  /\ WrittenCount(model) < Min(marks, Len(model))

\* ---- C8 ----
\* C8: the written layers form a prefix of the model, also after the model
\* has been replaced by a reset result: no written layer follows a pending
\* one.
C8_WrittenLayersFormPrefix ==
  /\ \A i \in 1 .. Len(model) : \A j \in 1 .. Len(model) :
       (i < j /\ model[j].written) => model[i].written
  /\ Succeeded =>
       \A i \in 1 .. Len(Unwrap(result)) : \A j \in 1 .. Len(Unwrap(result)) :
         (i < j /\ Unwrap(result)[j].written) => Unwrap(result)[i].written

\* a batch recorded on a model that a reset returned, behind two marks
C8_Witness ==
  /\ restarted
  /\ Len(model) = 2
  /\ model[1].written /\ ~model[2].written

\* ---- C9 ----
\* C9: without a restart, the required content equals the plain map on which
\* the same operations were replayed in order, listed by key; no key occurs
\* twice in it.
C9_RequiredContentIsReplay ==
  ~restarted =>
    LET c == model_required_content(model)
    IN /\ c = MapContent(replay, 0)
       /\ \A i \in 1 .. Len(c) : \A j \in 1 .. Len(c) : i # j => c[i][1] # c[j][1]

\* a written layer sets a key that a later layer overwrites or deletes
C9_Witness ==
  /\ ~restarted
  /\ Len(model) = 2
  /\ model[1].written
  /\ \E k \in Keys :
       /\ model[1].values[k] \in {Some(Some(v)) : v \in Vals}
       /\ model[2].values[k] # None
       /\ model[2].values[k] # model[1].values[k]
  /\ model_required_content(model) # <<>>

\* ---- C10 ----
\* C10: no key of the removed content is the key of a pair of the required
\* content of the same model.
C10_RemovedDisjointFromRequired ==
  LET r == model_removed_content(model)
      c == model_required_content(model)
  IN \A i \in 1 .. Len(r) : \A j \in 1 .. Len(c) : r[i] # c[j][1]

C10_Witness ==
  /\ model_removed_content(model) # <<>>
  /\ model_required_content(model) # <<>>

\* ---- C11 ----
\* the layers of m that define k, and the newest of them
Defining(m, k) == {i \in 1 .. Len(m) : m[i].values[k] # None}
Newest(m, k) == CHOOSE i \in Defining(m, k) : \A j \in Defining(m, k) : j <= i
Range(seq) == {seq[i] : i \in 1 .. Len(seq)}

\* C11: the removed content reports a key exactly when the newest layer that
\* defines the key deletes it and is not written; each such key once.
C11_RemovedIsPendingDeletes ==
  LET r == model_removed_content(model)
  IN /\ Range(r) = {k \in Keys : /\ Defining(model, k) # {}
                                 /\ model[Newest(model, k)].values[k] = Some(None)
                                 /\ ~model[Newest(model, k)].written}
     /\ \A i \in 1 .. Len(r) : \A j \in 1 .. Len(r) : i # j => r[i] # r[j]

\* one key's newest entry is a written delete (not reported), the other's a
\* pending delete (reported)
C11_Witness ==
  /\ Len(model_removed_content(model)) = 1
  /\ \E k \in Keys :
       /\ Defining(model, k) # {}
       /\ model[Newest(model, k)].values[k] = Some(None)
       /\ model[Newest(model, k)].written

\* ---- C12 ----
\* C12: the optional content is the same sequence of pairs as the required
\* content.
C12_OptionalEqualsRequired ==
  model_optional_content(model) = model_required_content(model)

C12_Witness ==
  /\ model_optional_content(model) # <<>>
  /\ \E i \in 1 .. Len(model) : ~model[i].written
  /\ \E i \in 1 .. Len(model) : model[i].written

\* ---- C13 ----
\* C13: a reset attempt leaves the model it is given as it was, layers,
\* entries and flags, whether it returns a model or nothing.
C13_ResetLeavesModelUntouched ==
  [][(pc = "run" /\ pc' = "reset") => model' = model]_vars

\* the reset returned a shorter model, or nothing, and the model still has
\* its layers
C13_Witness ==
  /\ Reconciled
  /\ Len(model) = 2
  /\ result # None => Len(Unwrap(result)) < Len(model)

\* ---- C14 ----
\* C14: a layer that stays in the model keeps its entries, and its written
\* flag never goes back from true to false.
C14_LayersOnlyGainWritten ==
  [][\A i \in 1 .. Len(model) :
       i <= Len(model') =>
         /\ model'[i].values = model[i].values
         /\ model[i].written => model'[i].written]_vars

\* after a restart a batch was recorded and marked
C14_Witness ==
  /\ restarted
  /\ Len(model) = 2
  /\ AllWritten(model)

\* ---- C15 ----
Pending(m) == {i \in 1 .. Len(m) : ~m[i].written}
OldestPending(m) == CHOOSE i \in Pending(m) : \A j \in Pending(m) : i <= j

\* C15: a mark-durable call sets written on the oldest pending layer and on
\* nothing else; with no pending layer it changes nothing.
C15_MarksExactlyOldestPending ==
  [][(pc = "run" /\ pc' = "run" /\ Len(model') = Len(model)) =>
       model' = IF Pending(model) = {} THEN model
                ELSE [model EXCEPT ![OldestPending(model)].written = TRUE]]_vars

\* two calls, one with nothing pending, one that marked the older of the layers
C15_Witness ==
  /\ ~restarted
  /\ marks = 2 /\ effective = 1
  /\ Len(model) = 2
  /\ model[1].written /\ ~model[2].written

\* ---- C16 ----
\* the outcome of the last operation of the batch on k, None when the batch
\* does not touch k
Occurrences(operations, k) == {i \in 1 .. Len(operations) : operations[i][1] = k}
LastOccurrence(operations, k) ==
  IF Occurrences(operations, k) = {} THEN None
  ELSE Some(operations[CHOOSE i \in Occurrences(operations, k) :
                         \A j \in Occurrences(operations, k) : j <= i][2])

\* C16: recording a batch, the empty one included, appends one layer that is
\* not written and leaves the layers before it as they were; the new layer
\* holds for each key the outcome of its last occurrence in the batch and
\* leaves every other key untouched.
C16_RecordAppendsOneLayer ==
  (pc = "run" /\ Len(model) < MaxLayers) =>
    \A operations \in Batches :
      LET after == apply_operations_on_model(operations, model)
      IN /\ Len(after) = Len(model) + 1
         /\ Prefix(after, Len(model)) = model
         /\ ~after[Len(after)].written
         /\ \A k \in Keys :
              after[Len(after)].values[k] = LastOccurrence(operations, k)

\* a batch recorded behind a written layer: it touches one key and leaves the
\* other untouched
C16_Witness ==
  /\ Len(model) = 2
  /\ model[1].written /\ ~model[2].written
  /\ \E k \in Keys : model[2].values[k] # None
  /\ \E k \in Keys : model[2].values[k] = None

\* ---- C17 ----
\* m agrees with the observed state on every key that some layer of m defines
Agrees(m, s) ==
  \A k \in Keys :
    Defining(m, k) # {} => Unwrap(m[Newest(m, k)].values[k]) = Observed(s)[k]

\* the search finds a match: some prefix ending in a written layer agrees
MatchFound(m, s) == \E n \in 1 .. Len(m) : m[n].written /\ Agrees(Prefix(m, n), s)

\* C17: when the search drops every layer without a match the reset returns
\* the empty model if the observed state is empty and nothing otherwise, and
\* the reset returns nothing in no other case.
C17_FailsOnlyWhenEmptiedOnNonEmptyState ==
  Reconciled =>
    /\ (~MatchFound(model, state) /\ state = <<>>) => result = Some(<<>>)
    /\ (~MatchFound(model, state) /\ state # <<>>) => result = None
    /\ result = None => (~MatchFound(model, state) /\ state # <<>>)

\* a written layer was dropped on the way to a failure
C17_Witness ==
  /\ Failed
  /\ Len(model) = 2
  /\ model[1].written

\* ---- C18 ----
\* C18: a returned model is the first n layers of the input, unchanged; all
\* its layers are written, so its removed content is empty.
C18_ReturnedModelIsWrittenPrefix ==
  Succeeded =>
    LET r == Unwrap(result)
    IN /\ Len(r) <= Len(model)
       /\ r = Prefix(model, Len(r))
       /\ AllWritten(r)
       /\ model_removed_content(r) = <<>>

\* a pending layer holding a delete was cut off and the written layer kept
C18_Witness ==
  /\ Succeeded
  /\ Len(Unwrap(result)) = 1 /\ Len(model) = 2
  /\ ~model[2].written
  /\ \E k \in Keys : model[2].values[k] = Some(None)

\* ---- C19 ----
\* C19: every pair of the required content of a returned model is in the
\* observed state, and every key whose newest entry in the returned model is
\* a delete is absent from the observed state.
C19_ReturnedContentIsOnDisk ==
  Succeeded =>
    LET r == Unwrap(result)
        c == model_required_content(r)
    IN /\ \A i \in 1 .. Len(c) : \E j \in 1 .. Len(state) : state[j] = c[i]
       /\ \A k \in Keys :
            (Defining(r, k) # {} /\ r[Newest(r, k)].values[k] = Some(None))
              => \A j \in 1 .. Len(state) : state[j][1] # k

\* the returned model sets one key and deletes the other
C19_Witness ==
  /\ Succeeded
  /\ model_required_content(Unwrap(result)) # <<>>
  /\ \E k \in Keys :
       /\ Defining(Unwrap(result), k) # {}
       /\ Unwrap(result)[Newest(Unwrap(result), k)].values[k] = Some(None)

\* ---- C20 ----
\* C20: the search ends after at most as many iterations as the model has
\* layers: an iteration either returns, and then all the earlier ones
\* removed one layer each, or removes one layer.
C20_LoopBoundedByLayers ==
  Reconciled =>
    LET run == ResetLoop(model, state, 0)
    IN /\ run.result = result
       /\ run.iters <= Len(model)
       /\ run.iters = IF result # None /\ Unwrap(result) # <<>>
                      THEN Len(model) - Len(Unwrap(result)) + 1
                      ELSE Len(model)

\* both layers were dropped, one pending and one written
C20_Witness ==
  /\ Reconciled
  /\ Len(model) = 2
  /\ model[1].written /\ ~model[2].written
  /\ result # Some(Prefix(model, 1))
====
